---- MODULE Spec2Model ----
(***************************************************************************)
(* Expense tracker: the expenses relation (db.py), the mutation and record *)
(* query services (services.py) and the aggregation service (reports.py).  *)
(*                                                                         *)
(* Python None / SQL NULL is the empty set, a present value v is {v}.      *)
(* Text (category, note, text filter) is a sequence of one-character       *)
(* strings.  Dates are day ordinals: ISO YYYY-MM-DD text compares as the   *)
(* ordinals do.  Amounts are integers (REAL in the relation); a quotient   *)
(* is kept as an exact fraction [num, den].                                *)
(***************************************************************************)
EXTENDS Integers, Sequences, FiniteSets, TLC

VARIABLES store, seq, call, ret, queried, stmt, issued, conn

vars == <<store, seq, call, ret, queried, stmt, issued, conn>>

(* ------------------------------ bounds --------------------------------- *)
MaxSeq == 2
MaxRows == 2
MaxPoolRows == 4
MaxLimit == 2

(* ------------------------------ values --------------------------------- *)
None == {}
Some(v) == {v}
Get(o) == CHOOSE v \in o : TRUE

Dates == {1, 2}
Categories == {<<"F">>, <<"b">>}
Amounts == {0, 1, 2}
Notes == {None, Some(<<"f">>)}

Opt(S) == {None} \cup {Some(v) : v \in S}

Max(S) == CHOOSE m \in S : \A x \in S : x <= m

RECURSIVE SumAmount(_)
SumAmount(rows) ==
    IF rows = {} THEN 0
    ELSE LET r == CHOOSE x \in rows : TRUE IN r.amount + SumAmount(rows \ {r})

(* every arrangement of a finite set as a sequence *)
Perms(S) ==
    {f \in [1..Cardinality(S) -> S] : \A i, j \in 1..Cardinality(S) : f[i] = f[j] => i = j}

Range(s) == {s[i] : i \in 1..Len(s)}

(* ------------------------- SQLite text semantics ----------------------- *)
(* byte value of a character: the BINARY collation orders text by it *)
Code(c) ==
    CASE c = "%" -> 37
      [] c = "F" -> 70
      [] c = "_" -> 95
      [] c = "b" -> 98
      [] c = "f" -> 102
      [] c = "o" -> 111

(* LIKE folds ASCII upper case to lower case *)
Fold(c) == IF c = "F" THEN "f" ELSE c

RECURSIVE Like(_, _)
Like(p, s) ==
    IF p = <<>> THEN s = <<>>
    ELSE IF Head(p) = "%"
         THEN \E k \in 0..Len(s) : Like(Tail(p), SubSeq(s, k + 1, Len(s)))
    ELSE IF s = <<>> THEN FALSE
    ELSE IF Head(p) = "_" THEN Like(Tail(p), Tail(s))
    ELSE Fold(Head(p)) = Fold(Head(s)) /\ Like(Tail(p), Tail(s))

RECURSIVE TextLess(_, _)
TextLess(s, t) ==
    IF t = <<>> THEN FALSE
    ELSE IF s = <<>> THEN TRUE
    ELSE IF Code(Head(s)) # Code(Head(t)) THEN Code(Head(s)) < Code(Head(t))
    ELSE TextLess(Tail(s), Tail(t))

(* ------------------------------ relation ------------------------------- *)
Ids(st) == {r.id : r \in st}

NextRowidOfStored(st, sq) == Max({0} \cup Ids(st)) + 1

(* INTEGER PRIMARY KEY AUTOINCREMENT: one more than the largest rowid ever used *)
NextRowid(st, sq) == Max({sq} \cup Ids(st)) + 1

InsertRowDropNote(st, id, date, category, amount, note) ==
    st \cup {[id |-> id, date |-> date, category |-> category, amount |-> amount, note |-> None]}

InsertRow(st, id, date, category, amount, note) ==
    st \cup {[id |-> id, date |-> date, category |-> category, amount |-> amount, note |-> note]}

UpdateRow(r, date, category, amount, note) ==
    [id |-> r.id,
     date |-> IF date # None THEN Get(date) ELSE r.date,
     category |-> IF category # None THEN Get(category) ELSE r.category,
     amount |-> IF amount # None THEN Get(amount) ELSE r.amount,
     note |-> IF note # None THEN note ELSE r.note]

UpdateEveryRow(st, id, date, category, amount, note) ==
    {UpdateRow(r, date, category, amount, note) : r \in st}

UpdateWhereId(st, id, date, category, amount, note) ==
    {IF r.id = id THEN UpdateRow(r, date, category, amount, note) ELSE r : r \in st}

DeleteUpToId(st, id) == {r \in st : r.id > id}

DeleteWhereId(st, id) == {r \in st : r.id # id}

Rowcount(st, id) == Cardinality({r \in st : r.id = id})

(* stmt is the statement the last call executed: its WHERE fragments and its
   bind values; a call that executes none leaves this *)
NoStatement == [where |-> <<>>, parameters |-> <<>>]

(* --------------------------- mutation service -------------------------- *)
add_expense(date, category, amount, note) ==
    /\ seq < MaxSeq
    /\ Cardinality(store) < MaxRows
    /\ LET id == NextRowid(store, seq) IN
        /\ store' = InsertRow(store, id, date, category, amount, note)
        /\ seq' = id
        /\ ret' = [raised |-> "", val |-> id]
    /\ call' = [op |-> "add", date |-> date, category |-> category,
                amount |-> amount, note |-> note]
    /\ queried' = TRUE
    /\ stmt' = [where |-> <<>>, parameters |-> <<date, category, amount, note>>]
    /\ issued' = issued \cup {NextRowid(store, seq)}
    /\ UNCHANGED conn

(* the values bound to the SET list, in the order the fields are tested *)
UpdateParameters(date, category, amount, note) ==
    (IF date # None THEN <<Get(date)>> ELSE <<>>)
    \o (IF category # None THEN <<Get(category)>> ELSE <<>>)
    \o (IF amount # None THEN <<Get(amount)>> ELSE <<>>)
    \o (IF note # None THEN <<Get(note)>> ELSE <<>>)

update_expense_unguarded(expense_id, date, category, amount, note) ==
    /\ call' = [op |-> "update", id |-> expense_id, date |-> date, category |-> category,
                amount |-> amount, note |-> note]
    /\ store' = UpdateWhereId(store, expense_id, date, category, amount, note)
    /\ ret' = [raised |-> "", val |-> Rowcount(store, expense_id)]
    /\ queried' = TRUE
    /\ stmt' = [where |-> <<"id=?">>,
                parameters |-> UpdateParameters(date, category, amount, note) \o <<expense_id>>]
    /\ UNCHANGED <<seq, issued, conn>>

update_expense(expense_id, date, category, amount, note) ==
    /\ call' = [op |-> "update", id |-> expense_id, date |-> date, category |-> category,
                amount |-> amount, note |-> note]
    /\ IF date = None /\ category = None /\ amount = None /\ note = None
       THEN /\ ret' = [raised |-> "", val |-> 0]
            /\ queried' = FALSE
            /\ stmt' = NoStatement
            /\ UNCHANGED <<store, seq>>
       ELSE /\ store' = UpdateWhereId(store, expense_id, date, category, amount, note)
            /\ ret' = [raised |-> "", val |-> Rowcount(store, expense_id)]
            /\ queried' = TRUE
            /\ stmt' = [where |-> <<"id=?">>,
                        parameters |-> UpdateParameters(date, category, amount, note)
                                        \o <<expense_id>>]
            /\ UNCHANGED seq
    /\ UNCHANGED <<issued, conn>>

delete_expense(expense_id) ==
    /\ call' = [op |-> "delete", id |-> expense_id]
    /\ store' = DeleteWhereId(store, expense_id)
    /\ ret' = [raised |-> "", val |-> Rowcount(store, expense_id)]
    /\ queried' = TRUE
    /\ stmt' = [where |-> <<"id=?">>, parameters |-> <<expense_id>>]
    /\ UNCHANGED <<seq, issued, conn>>

(* ------------------------- statement execution ------------------------- *)
(* bind values a clause fragment consumes *)
NumBinds(frag) == IF frag = "(note LIKE ? OR category LIKE ?)" THEN 2 ELSE IF frag = "date BETWEEN ? AND ?" THEN 2 ELSE 1

(* one clause fragment on one row, b its bind values; NULL LIKE ? is not true.
   The two BETWEEN binds are the caller's optional dates as they are, and a
   comparison with NULL is not true *)
EvalFrag(frag, b, r) ==
    CASE frag = "date >= ?" -> r.date >= b[1]
      [] frag = "date <= ?" -> r.date <= b[1]
      [] frag = "category = ?" -> r.category = b[1]
      [] frag = "amount >= ?" -> r.amount >= b[1]
      [] frag = "amount <= ?" -> r.amount <= b[1]
      [] frag = "(note LIKE ? OR category LIKE ?)" ->
            \/ r.note # None /\ Like(b[1], Get(r.note))
            \/ Like(b[2], r.category)
      [] frag = "date BETWEEN ? AND ?" ->
            /\ b[1] # None /\ b[2] # None
            /\ r.date >= Get(b[1]) /\ r.date <= Get(b[2])

(* " AND ".join(where), bound positionally *)
RECURSIVE EvalWhere(_, _, _)
EvalWhere(where, parameters, r) ==
    IF where = <<>> THEN TRUE
    ELSE LET n == NumBinds(Head(where)) IN
         /\ EvalFrag(Head(where), SubSeq(parameters, 1, n), r)
         /\ EvalWhere(Tail(where), SubSeq(parameters, n + 1, Len(parameters)), r)

RECURSIVE CountBinds(_)
CountBinds(where) == IF where = <<>> THEN 0 ELSE NumBinds(Head(where)) + CountBinds(Tail(where))

(* ORDER BY col ASC: a before-or-equal b under the column's collation *)
KeyLeq(col, a, b) ==
    CASE col = "amount" -> a.amount <= b.amount
      [] col = "date" -> a.date <= b.date
      [] col = "category" -> ~TextLess(b.category, a.category)
      [] col = "id" -> a.id <= b.id

OrderedBy(p, col, desc) ==
    \A i \in 1..(Len(p) - 1) :
        IF desc THEN KeyLeq(col, p[i + 1], p[i]) ELSE KeyLeq(col, p[i], p[i + 1])

PageIgnoringOffset(p, lim, off) ==
    SubSeq(p, 1, IF lim < Len(p) THEN lim ELSE Len(p))

Page(p, lim, off) ==
    IF off + 1 > Len(p) THEN <<>>
    ELSE SubSeq(p, off + 1, IF off + lim < Len(p) THEN off + lim ELSE Len(p))

(* SELECT ... FROM expenses [WHERE] [ORDER BY] [LIMIT ? [OFFSET ?]]: the row
   sequences the engine may return; rows the ORDER BY does not separate, and
   all rows when there is no ORDER BY, come in an unspecified order *)
Select(st, sql, parameters) ==
    LET matched == {r \in st : EvalWhere(sql.where, parameters, r)}
        nW == CountBinds(sql.where)
        ordered == {p \in Perms(matched) :
                        sql.order_by = None \/ OrderedBy(p, Get(sql.order_by), sql.desc)}
    IN  {IF sql.limit
         THEN Page(p, parameters[nW + 1], IF sql.offset THEN parameters[nW + 2] ELSE 0)
         ELSE p : p \in ordered}

(* --------------------------- record query service ---------------------- *)
VALID_ORDER_BY == {"amount", "date", "category", "id"}

(* Python truth of an optional str: the column name is a plain string, a text
   filter a character sequence *)
TruthyName(o) == o # None /\ Get(o) # ""

Truthy(o) == o # None /\ Get(o) # <<>>

LikePattern(text) == <<"%">> \o text \o <<"%">>

ListWhere(a) ==
    (IF a.date_from # None THEN <<"date >= ?">> ELSE <<>>)
    \o (IF a.date_to # None THEN <<"date <= ?">> ELSE <<>>)
    \o (IF a.category # None THEN <<"category = ?">> ELSE <<>>)
    \o (IF a.min_amount # None THEN <<"amount >= ?">> ELSE <<>>)
    \o (IF a.max_amount # None THEN <<"amount <= ?">> ELSE <<>>)
    \o (IF Truthy(a.text) THEN <<"(note LIKE ? OR category LIKE ?)">> ELSE <<>>)

ListParameters(a) ==
    (IF a.date_from # None THEN <<Get(a.date_from)>> ELSE <<>>)
    \o (IF a.date_to # None THEN <<Get(a.date_to)>> ELSE <<>>)
    \o (IF a.category # None THEN <<Get(a.category)>> ELSE <<>>)
    \o (IF a.min_amount # None THEN <<Get(a.min_amount)>> ELSE <<>>)
    \o (IF a.max_amount # None THEN <<Get(a.max_amount)>> ELSE <<>>)
    \o (IF Truthy(a.text)
        THEN <<LikePattern(Get(a.text)), LikePattern(Get(a.text))>> ELSE <<>>)

OrderByRejected(a) == TruthyName(a.order_by) /\ Get(a.order_by) \notin VALID_ORDER_BY

LimitRejected(a) == a.limit # None /\ Get(a.limit) <= 0

OffsetRejected(a) == a.limit # None /\ a.offset # None /\ Get(a.offset) < 0

NormalizeRow(r) ==
    [id |-> r.id, date |-> r.date, category |-> r.category, amount |-> r.amount,
     note |-> IF r.note # None THEN r.note ELSE None]

list_expenses_draining(a) ==
    /\ call' = [op |-> "list", args |-> a]
    /\ UNCHANGED <<seq, issued, conn>>
    /\ IF OrderByRejected(a) \/ LimitRejected(a) \/ OffsetRejected(a)
       THEN /\ ret' = [raised |-> "ValueError", val |-> <<>>]
            /\ queried' = FALSE
            /\ stmt' = NoStatement
            /\ UNCHANGED store
       ELSE LET sql == [where |-> ListWhere(a), order_by |-> None, desc |-> FALSE,
                        limit |-> FALSE, offset |-> FALSE]
            IN  /\ \E rows \in Select(store, sql, ListParameters(a)) :
                        /\ ret' = [raised |-> "", val |-> rows]
                        /\ store' = store \ Range(rows)
                /\ queried' = TRUE
                /\ stmt' = [where |-> sql.where, parameters |-> ListParameters(a)]

list_expenses(a) ==
    /\ call' = [op |-> "list", args |-> a]
    /\ UNCHANGED <<store, seq, issued, conn>>
    /\ IF OrderByRejected(a) \/ LimitRejected(a) \/ OffsetRejected(a)
       THEN /\ ret' = [raised |-> "ValueError", val |-> <<>>]
            /\ queried' = FALSE
            /\ stmt' = NoStatement
       ELSE LET sql == [where |-> ListWhere(a),
                        order_by |-> IF TruthyName(a.order_by) THEN a.order_by ELSE None,
                        desc |-> a.desc,
                        limit |-> a.limit # None,
                        offset |-> a.limit # None /\ a.offset # None]
                parameters == ListParameters(a)
                                \o (IF a.limit # None THEN <<Get(a.limit)>> ELSE <<>>)
                                \o (IF a.limit # None /\ a.offset # None
                                    THEN <<Get(a.offset)>> ELSE <<>>)
            IN  /\ \E rows \in Select(store, sql, parameters) :
                        ret' = [raised |-> "", val |-> [i \in 1..Len(rows) |-> NormalizeRow(rows[i])]]
                /\ queried' = TRUE
                /\ stmt' = [where |-> sql.where, parameters |-> parameters]

(* --------------------------- aggregation service ----------------------- *)
where_builder_category_truthy(params) ==
    [where |->
        (IF params.date_from # None THEN <<"date >= ?">> ELSE <<>>)
        \o (IF params.date_to # None THEN <<"date <= ?">> ELSE <<>>)
        \o (IF params.min_amount # None /\ Get(params.min_amount) # 0 THEN <<"amount >= ?">> ELSE <<>>)
        \o (IF params.max_amount # None /\ Get(params.max_amount) # 0 THEN <<"amount <= ?">> ELSE <<>>)
        \o (IF Truthy(params.text) THEN <<"(note LIKE ? OR category LIKE ?)">> ELSE <<>>),
     parameters |->
        (IF params.date_from # None THEN <<Get(params.date_from)>> ELSE <<>>)
        \o (IF params.date_to # None THEN <<Get(params.date_to)>> ELSE <<>>)
        \o (IF params.min_amount # None /\ Get(params.min_amount) # 0 THEN <<Get(params.min_amount)>> ELSE <<>>)
        \o (IF params.max_amount # None /\ Get(params.max_amount) # 0 THEN <<Get(params.max_amount)>> ELSE <<>>)
        \o (IF Truthy(params.text)
            THEN <<LikePattern(Get(params.text)), LikePattern(Get(params.text))>> ELSE <<>>)]

where_builder_category(params) ==
    [where |->
        (IF params.date_from # None THEN <<"date >= ?">> ELSE <<>>)
        \o (IF params.date_to # None THEN <<"date <= ?">> ELSE <<>>)
        \o (IF params.min_amount # None THEN <<"amount >= ?">> ELSE <<>>)
        \o (IF params.max_amount # None THEN <<"amount <= ?">> ELSE <<>>)
        \o (IF Truthy(params.text) THEN <<"(note LIKE ? OR category LIKE ?)">> ELSE <<>>),
     parameters |->
        (IF params.date_from # None THEN <<Get(params.date_from)>> ELSE <<>>)
        \o (IF params.date_to # None THEN <<Get(params.date_to)>> ELSE <<>>)
        \o (IF params.min_amount # None THEN <<Get(params.min_amount)>> ELSE <<>>)
        \o (IF params.max_amount # None THEN <<Get(params.max_amount)>> ELSE <<>>)
        \o (IF Truthy(params.text)
            THEN <<LikePattern(Get(params.text)), LikePattern(Get(params.text))>> ELSE <<>>)]

GroupByCategoryCountAll(matched) ==
    {[category |-> c,
      total |-> SumAmount({r \in matched : r.category = c}),
      count |-> Cardinality(matched)] : c \in {r.category : r \in matched}}

(* SELECT category, SUM(amount) AS total, COUNT AS count ... GROUP BY category *)
GroupByCategory(matched) ==
    {[category |-> c,
      total |-> SumAmount({r \in matched : r.category = c}),
      count |-> Cardinality({r \in matched : r.category = c})] : c \in {r.category : r \in matched}}

(* ... ORDER BY total DESC: groups of equal total come in an unspecified order *)
SelectByCategory(st, where, parameters) ==
    LET groups == GroupByCategory({r \in st : EvalWhere(where, parameters, r)})
    IN  {p \in Perms(groups) : \A i \in 1..(Len(p) - 1) : p[i].total >= p[i + 1].total}

RECURSIVE SumTotal(_)
SumTotal(rows) == IF rows = <<>> THEN 0 ELSE Head(rows).total + SumTotal(Tail(rows))

TotalGlobalOfFirst(rows) == IF rows = <<>> THEN 0 ELSE Head(rows).total

TotalGlobal(rows) == SumTotal(rows)

(* (total / total_global) * 100.0, kept exact *)
Percentage(total, total_global) == [num |-> total * 100, den |-> total_global]

CategoryResultUnguarded(rows) ==
    [i \in 1..Len(rows) |->
        [category |-> rows[i].category, total |-> rows[i].total, count |-> rows[i].count,
         pct_total |-> Percentage(rows[i].total, TotalGlobal(rows))]]

CategoryResult(rows) ==
    IF rows = <<>> THEN <<>>
    ELSE IF TotalGlobal(rows) = 0 THEN <<>>
    ELSE [i \in 1..Len(rows) |->
            [category |-> rows[i].category, total |-> rows[i].total, count |-> rows[i].count,
             pct_total |-> Percentage(rows[i].total, TotalGlobal(rows))]]

by_category(a) ==
    /\ call' = [op |-> "by_category", args |-> a]
    /\ UNCHANGED <<store, seq, issued, conn>>
    /\ LET built == where_builder_category(a) IN
        /\ \E rows \in SelectByCategory(store, built.where, built.parameters) :
                ret' = [raised |-> "", val |-> CategoryResult(rows)]
        /\ stmt' = built
    /\ queried' = TRUE

where_builder_range_without_min(date_from, date_to, min_amount, max_amount, text) ==
    [where |->
        <<"date BETWEEN ? AND ?">>
        \o (IF max_amount # None THEN <<"amount <= ?">> ELSE <<>>)
        \o (IF Truthy(text) THEN <<"(note LIKE ? OR category LIKE ?)">> ELSE <<>>),
     parameters |->
        <<date_from, date_to>>
        \o (IF max_amount # None THEN <<Get(max_amount)>> ELSE <<>>)
        \o (IF Truthy(text) THEN <<LikePattern(Get(text)), LikePattern(Get(text))>> ELSE <<>>)]

where_builder_range(date_from, date_to, min_amount, max_amount, text) ==
    [where |->
        <<"date BETWEEN ? AND ?">>
        \o (IF min_amount # None THEN <<"amount >= ?">> ELSE <<>>)
        \o (IF max_amount # None THEN <<"amount <= ?">> ELSE <<>>)
        \o (IF Truthy(text) THEN <<"(note LIKE ? OR category LIKE ?)">> ELSE <<>>),
     parameters |->
        <<date_from, date_to>>
        \o (IF min_amount # None THEN <<Get(min_amount)>> ELSE <<>>)
        \o (IF max_amount # None THEN <<Get(max_amount)>> ELSE <<>>)
        \o (IF Truthy(text) THEN <<LikePattern(Get(text)), LikePattern(Get(text))>> ELSE <<>>)]

(* SELECT SUM(amount) AS total, COUNT AS count, AVG(amount) AS avg: always one
   row; SUM and AVG of no rows are NULL *)
SelectSummary(st, where, parameters) ==
    LET matched == {r \in st : EvalWhere(where, parameters, r)} IN
    [total |-> IF matched = {} THEN None ELSE Some(SumAmount(matched)),
     count |-> Cardinality(matched),
     avg |-> IF matched = {} THEN None
             ELSE Some([num |-> SumAmount(matched), den |-> Cardinality(matched)])]

RangeResultZeroed(row) ==
    Some([total |-> IF row.total = None THEN 0 ELSE Get(row.total),
          count |-> row.count,
          avg |-> IF row.avg = None \/ Get(row.avg).num = 0
                  THEN [num |-> 0, den |-> 1] ELSE Get(row.avg)])

(* float(row["total"] or 0.0), int(row["count"]), float(row["avg"] or 0.0) *)
RangeResult(row) ==
    IF row.count = 0 THEN None
    ELSE Some([total |-> IF row.total = None THEN 0 ELSE Get(row.total),
               count |-> row.count,
               avg |-> IF row.avg = None \/ Get(row.avg).num = 0
                       THEN [num |-> 0, den |-> 1] ELSE Get(row.avg)])

range_summary(a) ==
    /\ call' = [op |-> "range_summary", args |-> a]
    /\ UNCHANGED <<store, seq, issued, conn>>
    /\ LET built == where_builder_range(a.date_from, a.date_to, a.min_amount, a.max_amount, a.text) IN
        /\ ret' = [raised |-> "", val |-> RangeResult(SelectSummary(store, built.where, built.parameters))]
        /\ stmt' = built
    /\ queried' = TRUE

(* ---------------------------- specification ---------------------------- *)
Init ==
    /\ store = {}
    /\ seq = 0
    /\ call = [op |-> "init"]
    /\ ret = [raised |-> "", val |-> 0]
    /\ queried = FALSE
    /\ stmt = NoStatement
    /\ issued = 1..seq
    /\ conn = [opened |-> 0, open |-> 0]

(* amounts a caller may offer to the validation collaborator *)
RawAmounts == Amounts \cup {-1}

validate_amount_nonnegative(amount_value) ==
    IF amount_value < 0 THEN [raised |-> "ValueError", val |-> 0]
    ELSE [raised |-> "", val |-> amount_value]

validate_amount(amount_value) ==
    IF amount_value <= 0 THEN [raised |-> "ValueError", val |-> 0]
    ELSE [raised |-> "", val |-> amount_value]

(* add is called with pre-validated fields: the amounts validate_amount returns *)
PositiveAmounts ==
    {validate_amount(v).val : v \in {w \in RawAmounts : validate_amount(w).raised = ""}}

Add ==
    \E d \in Dates, c \in Categories, a \in PositiveAmounts, n \in Notes : add_expense(d, c, a, n)

(* the values an update writes: one per field, each differing from some stored value *)
NewDates == {2}
NewCategories == {<<"b">>}
NewAmounts == PositiveAmounts \cap {1}
NewNotes == {<<"f">>}

Update ==
    \E i \in 1..MaxSeq, d \in Opt(NewDates), c \in Opt(NewCategories),
       a \in Opt(NewAmounts), n \in Opt(NewNotes) :
        update_expense(i, d, c, a, n)

Delete == \E i \in 1..MaxSeq : delete_expense(i)

NoFilter ==
    [date_from |-> None, date_to |-> None, category |-> None, min_amount |-> None,
     max_amount |-> None, text |-> None, order_by |-> None, desc |-> FALSE,
     limit |-> None, offset |-> None]

List == \E o \in {None, Some("id")} : list_expenses([NoFilter EXCEPT !.order_by = o])

NoReportFilter ==
    [date_from |-> None, date_to |-> None, min_amount |-> None, max_amount |-> None, text |-> None]

ByCategory == by_category(NoReportFilter)

Next == Add \/ Update \/ Delete \/ List \/ ByCategory

Spec == Init /\ [][Next]_vars

(* ------------------- the query paths over a fixed relation ------------- *)
(* rows the mutation service can have stored; keys are not in id order, two rows
   tie on every sort key but id, one amount is zero *)
Pool ==
    {[id |-> 1, date |-> 2, category |-> <<"b">>, amount |-> 2, note |-> None],
     [id |-> 2, date |-> 1, category |-> <<"F">>, amount |-> 1, note |-> Some(<<"f">>)],
     [id |-> 3, date |-> 2, category |-> <<"F">>, amount |-> 0, note |-> None],
     [id |-> 4, date |-> 1, category |-> <<"b">>, amount |-> 1, note |-> None],
     [id |-> 5, date |-> 1, category |-> <<"F">>, amount |-> 2, note |-> Some(<<"f">>)]}

Texts == {<<>>, <<"f">>, <<"_">>, <<"o">>}
OrderBys == VALID_ORDER_BY \cup {"", "bogus"}
Limits == 0..MaxLimit
Offsets == -1..1

FilterArgs ==
    [date_from : Opt(Dates), date_to : Opt(Dates), category : Opt(Categories),
     min_amount : Opt({1, 2}), max_amount : Opt({0, 1}), text : Opt(Texts),
     order_by : {None}, desc : {FALSE}, limit : {None}, offset : {None}]

PageArgs ==
    [date_from : {None}, date_to : {None}, category : {None},
     min_amount : Opt({1}), max_amount : {None}, text : {None},
     order_by : Opt(OrderBys), desc : BOOLEAN, limit : Opt(Limits), offset : Opt(Offsets)]

ReportArgs ==
    [date_from : Opt(Dates), date_to : Opt(Dates), min_amount : Opt({1, 2}),
     max_amount : Opt({0, 1}), text : Opt(Texts)]

InitQuery ==
    /\ store \in {st \in SUBSET Pool : Cardinality(st) <= MaxPoolRows}
    /\ seq = Max({0} \cup Ids(store))
    /\ call = [op |-> "init"]
    /\ ret = [raised |-> "", val |-> 0]
    /\ queried = FALSE
    /\ stmt = NoStatement
    /\ issued = 1..seq
    /\ conn = [opened |-> 0, open |-> 0]

(* one query per behaviour: a query leaves the relation as it found it, so a
   second query would start from a relation the first one already starts from *)
Fresh == call.op = "init"

ListFiltered == Fresh /\ \E a \in FilterArgs : list_expenses(a)

ListPaged == Fresh /\ \E a \in PageArgs : list_expenses(a)

ReportCategory == Fresh /\ \E a \in ReportArgs : by_category(a)

ReportRange == Fresh /\ \E a \in ReportArgs : range_summary(a)

NextQuery == ListFiltered \/ ListPaged \/ ReportCategory \/ ReportRange

SpecQuery == InitQuery /\ [][NextQuery]_vars

(* ----------------------------- command line ---------------------------- *)
(* The handlers of cli.py. Each opens its own connection, calls one service and
   closes the connection in its finally clause. ret.val is the handler's return
   value (None when it falls off its end), ret.caught the exception its except
   clause caught, ret.rows what the service returned, ret.printed whether the
   result was printed and ret.out what was printed. *)
MaxTop == 2

Tops == {None} \cup {Some(n) : n \in -1..MaxTop}

(* rows[:n] of Python *)
Slice(rows, n) ==
    IF n >= 0 THEN SubSeq(rows, 1, IF n < Len(rows) THEN n ELSE Len(rows))
    ELSE SubSeq(rows, 1, IF Len(rows) + n > 0 THEN Len(rows) + n ELSE 0)

get_connection(c) == [opened |-> c.opened + 1, open |-> c.open + 1]

(* what list_expenses can return for arguments it accepts: one sequence per order
   the statement may deliver the rows in *)
ListResults(st, a) ==
    LET sql == [where |-> ListWhere(a),
                order_by |-> IF TruthyName(a.order_by) THEN a.order_by ELSE None,
                desc |-> a.desc,
                limit |-> a.limit # None,
                offset |-> a.limit # None /\ a.offset # None]
        parameters == ListParameters(a)
                        \o (IF a.limit # None THEN <<Get(a.limit)>> ELSE <<>>)
                        \o (IF a.limit # None /\ a.offset # None
                            THEN <<Get(a.offset)>> ELSE <<>>)
    IN  {[i \in 1..Len(rows) |-> NormalizeRow(rows[i])] : rows \in Select(st, sql, parameters)}

(* the connection is never closed *)
leak(c) == c

close(c) == [c EXCEPT !.open = c.open - 1]

(* update_expense(conn, expense_id, *, date, category, amount, note): the
   parameters that can be passed by position *)
UpdateExpensePositional == 2

(* cmd_update passes conn, args.id, args.date, args.category, args.amount, args.note
   by position *)
CmdUpdatePassed == 6

cmd_update_unchecked(id, date, category, amount, note) ==
    /\ call' = [op |-> "cmd_update", id |-> id, date |-> date, category |-> category,
                amount |-> amount, note |-> note]
    /\ conn' = close(get_connection(conn))
    /\ ret' = [raised |-> "", val |-> None, caught |-> "TypeError", rows |-> <<>>,
               printed |-> FALSE, out |-> <<>>]
    /\ queried' = FALSE
    /\ stmt' = NoStatement
    /\ UNCHANGED <<store, seq, issued>>

cmd_update(id, date, category, amount, note) ==
    /\ call' = [op |-> "cmd_update", id |-> id, date |-> date, category |-> category,
                amount |-> amount, note |-> note]
    /\ UNCHANGED <<seq, issued>>
    /\ IF date = None /\ category = None /\ amount = None /\ note = None
       THEN /\ ret' = [raised |-> "", val |-> Some(2), caught |-> "", rows |-> <<>>,
                       printed |-> FALSE, out |-> <<>>]
            /\ queried' = FALSE
            /\ stmt' = NoStatement
            /\ UNCHANGED <<store, conn>>
       ELSE /\ conn' = close(get_connection(conn))
            /\ IF CmdUpdatePassed > UpdateExpensePositional
               THEN (* the call raises TypeError before the body of update_expense
                       runs; the except clause reports it and has no return *)
                    /\ ret' = [raised |-> "", val |-> None, caught |-> "TypeError",
                               rows |-> <<>>, printed |-> FALSE, out |-> <<>>]
                    /\ queried' = FALSE
                    /\ stmt' = NoStatement
                    /\ UNCHANGED store
               ELSE /\ store' = UpdateWhereId(store, id, date, category, amount, note)
                    /\ ret' = [raised |-> "", val |-> Some(0), caught |-> "",
                               rows |-> <<Rowcount(store, id)>>, printed |-> TRUE,
                               out |-> <<Rowcount(store, id)>>]
                    /\ queried' = TRUE
                    /\ stmt' = [where |-> <<"id=?">>,
                                parameters |-> UpdateParameters(date, category, amount, note)
                                                \o <<id>>]

cmd_report_category(a, top) ==
    /\ call' = [op |-> "cmd_report_category", args |-> a, top |-> top]
    /\ conn' = close(get_connection(conn))
    /\ UNCHANGED <<store, seq, issued>>
    /\ LET built == where_builder_category(a) IN
        /\ \E selected \in SelectByCategory(store, built.where, built.parameters) :
            LET rows == CategoryResult(selected) IN
            IF top # None /\ Get(top) > 0
            THEN ret' = [raised |-> "", val |-> Some(2), caught |-> "", rows |-> rows,
                         printed |-> FALSE, out |-> <<>>]
            ELSE ret' = [raised |-> "", val |-> Some(0), caught |-> "", rows |-> rows,
                         printed |-> TRUE,
                         out |-> IF top # None THEN Slice(rows, Get(top)) ELSE rows]
        /\ stmt' = built
    /\ queried' = TRUE

cmd_report_range(a) ==
    /\ call' = [op |-> "cmd_report_range", args |-> a]
    /\ conn' = close(get_connection(conn))
    /\ UNCHANGED <<store, seq, issued>>
    /\ LET built == where_builder_range(a.date_from, a.date_to, a.min_amount, a.max_amount, a.text)
           summary == RangeResult(SelectSummary(store, built.where, built.parameters))
       IN  /\ ret' = [raised |-> "", val |-> Some(0), caught |-> "", rows |-> summary,
                      printed |-> TRUE, out |-> summary]
           /\ stmt' = built
    /\ queried' = TRUE

(* In the handlers below `fails` says that the statement the service executes
   raises sqlite3.Error: the expenses table is missing because init never ran, the
   file is locked or unreadable. *)
Failure == BOOLEAN

cmd_init(fails) ==
    /\ call' = [op |-> "cmd_init"]
    /\ conn' = close(get_connection(conn))
    /\ ret' = IF fails
              THEN [raised |-> "", val |-> Some(2), caught |-> "sqlite3.Error", rows |-> <<>>,
                    printed |-> FALSE, out |-> <<>>]
              ELSE [raised |-> "", val |-> Some(0), caught |-> "", rows |-> <<>>,
                    printed |-> TRUE, out |-> <<>>]
    /\ queried' = ~fails
    /\ stmt' = NoStatement
    /\ UNCHANGED <<store, seq, issued>>

cmd_list(a, fails) ==
    /\ call' = [op |-> "cmd_list", args |-> a]
    /\ conn' = close(get_connection(conn))
    /\ UNCHANGED <<store, seq, issued>>
    /\ stmt' = NoStatement
    /\ IF OrderByRejected(a) \/ LimitRejected(a) \/ OffsetRejected(a)
       THEN /\ ret' = [raised |-> "", val |-> Some(1), caught |-> "ValueError", rows |-> <<>>,
                       printed |-> FALSE, out |-> <<>>]
            /\ queried' = FALSE
       ELSE IF fails
       THEN /\ ret' = [raised |-> "", val |-> Some(1), caught |-> "sqlite3.Error", rows |-> <<>>,
                       printed |-> FALSE, out |-> <<>>]
            /\ queried' = FALSE
       ELSE /\ \E rows \in ListResults(store, a) :
                    ret' = [raised |-> "", val |-> Some(0), caught |-> "", rows |-> rows,
                            printed |-> TRUE, out |-> rows]
            /\ queried' = TRUE

cmd_add(date, category, amount, note, fails) ==
    /\ call' = [op |-> "cmd_add", date |-> date, category |-> category,
                amount |-> amount, note |-> note]
    /\ conn' = close(get_connection(conn))
    /\ stmt' = NoStatement
    /\ IF fails
       THEN (* the except clause reports the error and has no return *)
            /\ ret' = [raised |-> "", val |-> None, caught |-> "sqlite3.Error", rows |-> <<>>,
                       printed |-> FALSE, out |-> <<>>]
            /\ queried' = FALSE
            /\ UNCHANGED <<store, seq, issued>>
       ELSE LET id == NextRowid(store, seq) IN
            /\ store' = InsertRow(store, id, date, category, amount, note)
            /\ seq' = id
            /\ issued' = issued \cup {id}
            /\ ret' = [raised |-> "", val |-> Some(0), caught |-> "", rows |-> <<id>>,
                       printed |-> TRUE, out |-> <<id>>]
            /\ queried' = TRUE

cmd_delete(id, yes, fails) ==
    /\ call' = [op |-> "cmd_delete", id |-> id, yes |-> yes]
    /\ stmt' = NoStatement
    /\ UNCHANGED <<seq, issued>>
    /\ IF ~yes
       THEN /\ ret' = [raised |-> "", val |-> Some(2), caught |-> "", rows |-> <<>>,
                       printed |-> FALSE, out |-> <<>>]
            /\ queried' = FALSE
            /\ UNCHANGED <<store, conn>>
       ELSE /\ conn' = close(get_connection(conn))
            /\ IF fails
               THEN (* the except clause reports the error and has no return *)
                    /\ ret' = [raised |-> "", val |-> None, caught |-> "sqlite3.Error",
                               rows |-> <<>>, printed |-> FALSE, out |-> <<>>]
                    /\ queried' = FALSE
                    /\ UNCHANGED store
               ELSE /\ store' = DeleteWhereId(store, id)
                    /\ ret' = [raised |-> "", val |-> Some(0), caught |-> "",
                               rows |-> <<Rowcount(store, id)>>, printed |-> TRUE,
                               out |-> <<Rowcount(store, id)>>]
                    /\ queried' = TRUE

(* --fields as cmd_export sees it, and what writing the destination file does *)
FieldsGiven == {"allowed", "empty", "unknown"}

Writes == {"written", "FileExistsError", "OSError"}

cmd_export(a, fields, fails, write) ==
    /\ call' = [op |-> "cmd_export", args |-> a, fields |-> fields]
    /\ stmt' = NoStatement
    /\ UNCHANGED <<store, seq, issued>>
    /\ IF fields # "allowed"
       THEN /\ ret' = [raised |-> "", val |-> Some(2), caught |-> "", rows |-> <<>>,
                       printed |-> FALSE, out |-> <<>>]
            /\ queried' = FALSE
            /\ UNCHANGED conn
       ELSE /\ conn' = close(get_connection(conn))
            /\ IF OrderByRejected(a) \/ LimitRejected(a) \/ OffsetRejected(a)
               THEN /\ ret' = [raised |-> "", val |-> Some(1), caught |-> "ValueError",
                               rows |-> <<>>, printed |-> FALSE, out |-> <<>>]
                    /\ queried' = FALSE
               ELSE IF fails
               THEN /\ ret' = [raised |-> "", val |-> Some(1), caught |-> "sqlite3.Error",
                               rows |-> <<>>, printed |-> FALSE, out |-> <<>>]
                    /\ queried' = FALSE
               ELSE /\ \E rows \in ListResults(store, a) :
                        ret' = IF write = "written"
                               THEN [raised |-> "", val |-> Some(0), caught |-> "",
                                     rows |-> rows, printed |-> TRUE, out |-> rows]
                               ELSE [raised |-> "", val |-> Some(2), caught |-> write,
                                     rows |-> rows, printed |-> FALSE, out |-> <<>>]
                    /\ queried' = TRUE

(* list and export arguments from the command line: --limit and --offset are any
   integers, --order-by is one of the parser's choices *)
CliListArgs ==
    [date_from : {None}, date_to : {None}, category : {None},
     min_amount : Opt({1}), max_amount : {None}, text : {None},
     order_by : {None, Some("amount")}, desc : {FALSE}, limit : Opt({-1, 1}), offset : {None}]

(* one command per process, over a database file that holds some records *)
CmdUpdate ==
    /\ Fresh
    /\ \E i \in 1..MaxSeq, d \in Opt(NewDates), c \in Opt(NewCategories),
          a \in Opt(NewAmounts), n \in Opt(NewNotes) :
            cmd_update(i, d, c, a, n)

CmdReportCategory == Fresh /\ \E a \in ReportArgs, top \in Tops : cmd_report_category(a, top)

CmdReportRange == Fresh /\ \E a \in ReportArgs : cmd_report_range(a)

CmdInit == Fresh /\ \E f \in Failure : cmd_init(f)

CmdList == Fresh /\ \E a \in CliListArgs, f \in Failure : cmd_list(a, f)

CmdAdd ==
    /\ Fresh
    /\ \E d \in NewDates, c \in NewCategories, a \in NewAmounts, n \in Opt(NewNotes),
          f \in Failure :
            cmd_add(d, c, a, n, f)

CmdDelete == Fresh /\ \E i \in 1..MaxSeq, yes \in BOOLEAN, f \in Failure : cmd_delete(i, yes, f)

CmdExport ==
    /\ Fresh
    /\ \E a \in CliListArgs, fields \in FieldsGiven, f \in Failure, w \in Writes :
            cmd_export(a, fields, f, w)

NextCli ==
    \/ CmdInit \/ CmdList \/ CmdAdd \/ CmdUpdate \/ CmdDelete
    \/ CmdReportCategory \/ CmdReportRange \/ CmdExport

SpecCli == InitQuery /\ [][NextCli]_vars

(* ------------------------------- claims -------------------------------- *)
NoListFilter(a) ==
    /\ a.date_from = None /\ a.date_to = None /\ a.category = None
    /\ a.min_amount = None /\ a.max_amount = None /\ a.text = None
    /\ a.limit = None /\ a.offset = None

(* C1: add returns a positive id that no stored record has and stores exactly one
   new record carrying that id and the date, category, amount and note passed
   (note absent when none was passed), every earlier record unchanged; a list with
   no filters that follows returns every stored record once, the new one among them. *)
AddRoundTrip ==
    [][/\ call'.op = "add" =>
            /\ ret'.raised = "" /\ ret'.val > 0 /\ ret'.val \notin Ids(store)
            /\ store \subseteq store'
            /\ store' \ store = {[id |-> ret'.val, date |-> call'.date,
                                  category |-> call'.category, amount |-> call'.amount,
                                  note |-> call'.note]}
       /\ (call.op = "add" /\ call'.op = "list" /\ NoListFilter(call'.args)) =>
            /\ ret'.raised = ""
            /\ Len(ret'.val) = Cardinality(store)
            /\ Range(ret'.val) = store
            /\ Cardinality({i \in 1..Len(ret'.val) : ret'.val[i].id = ret.val}) = 1
            /\ \E i \in 1..Len(ret'.val) :
                    ret'.val[i] = [id |-> ret.val, date |-> call.date, category |-> call.category,
                                   amount |-> call.amount, note |-> call.note]
      ]_vars

AddRoundTripWitness ==
    /\ call.op = "add" /\ call.note = None
    /\ Cardinality(store) = 2
    /\ ret.val = 2
    /\ \E r \in store : r.id = 2 /\ r.note = None /\ r.amount = call.amount

SomeField(c) == c.date # None \/ c.category # None \/ c.amount # None \/ c.note # None

(* C2: update with at least one field provided returns 1 when a record has the id,
   sets exactly the provided fields of that record and leaves its id, its other
   fields and every other record unchanged; returns 0 and changes nothing when no
   record has the id. *)
UpdateFrame ==
    [][(call'.op = "update" /\ SomeField(call')) =>
        /\ ret'.raised = ""
        /\ IF call'.id \in Ids(store)
           THEN /\ ret'.val = 1
                /\ Ids(store') = Ids(store) /\ Cardinality(store') = Cardinality(store)
                /\ \A r \in store : r.id # call'.id => r \in store'
                /\ \A r \in store : r.id = call'.id =>
                     \E u \in store' :
                        /\ u.id = r.id
                        /\ u.date = (IF call'.date = None THEN r.date ELSE Get(call'.date))
                        /\ u.category = (IF call'.category = None THEN r.category ELSE Get(call'.category))
                        /\ u.amount = (IF call'.amount = None THEN r.amount ELSE Get(call'.amount))
                        /\ u.note = (IF call'.note = None THEN r.note ELSE call'.note)
           ELSE ret'.val = 0 /\ store' = store
      ]_vars

UpdateFrameWitness ==
    /\ call.op = "update" /\ ret.val = 1
    /\ call.date # None /\ call.category = None /\ call.amount # None /\ call.note = None
    /\ Cardinality(store) = 2
    /\ \E r \in store : r.id = call.id /\ r.date = 2 /\ r.category = <<"F">> /\ r.note = None
    /\ \E r \in store : r.id # call.id /\ r.date = 1 /\ r.amount = 2

(* C3: delete returns 1 and removes exactly the record with the id when there is
   one, the others unchanged; returns 0, raises nothing and changes nothing when
   there is none, so a repeated delete of the same id returns 0. *)
DeleteExact ==
    [][call'.op = "delete" =>
        /\ ret'.raised = ""
        /\ IF call'.id \in Ids(store)
           THEN /\ ret'.val = 1
                /\ store' \subseteq store
                /\ Cardinality(store \ store') = 1
                /\ \A r \in store \ store' : r.id = call'.id
           ELSE ret'.val = 0 /\ store' = store
        /\ (call.op = "delete" /\ call.id = call'.id) => ret'.val = 0 /\ store' = store
      ]_vars

DeleteExactWitness ==
    /\ call.op = "delete" /\ ret.val = 1
    /\ Cardinality(store) = 1
    /\ call.id \notin Ids(store) /\ call.id < seq

(* text occurs in s as a contiguous run; letters are compared up to ASCII case,
   the reading of "substring" most favourable to LIKE *)
Contains(text, s) ==
    \E k \in 0..(Len(s) - Len(text)) : \A j \in 1..Len(text) : Fold(s[k + j]) = Fold(text[j])

(* the filters as the claims state them, with literal substring containment *)
SatisfiesFilters(r, a) ==
    /\ a.date_from # None => r.date >= Get(a.date_from)
    /\ a.date_to # None => r.date <= Get(a.date_to)
    /\ a.min_amount # None => r.amount >= Get(a.min_amount)
    /\ a.max_amount # None => r.amount <= Get(a.max_amount)
    /\ (a.text # None /\ Get(a.text) # <<>>) =>
            \/ r.note # None /\ Contains(Get(a.text), Get(r.note))
            \/ Contains(Get(a.text), r.category)

Unpaged(a) == a.order_by = None /\ a.limit = None /\ a.offset = None

(* C4: list with no orderBy, limit or offset returns exactly the stored records that
   satisfy every present filter at once: date within the inclusive bounds, category
   equal to the category filter, amount within the inclusive bounds, and note or
   category containing text as a substring; an absent filter or an empty text
   constrains nothing. *)
ListFilterExact ==
    (call.op = "list" /\ Unpaged(call.args)) =>
        /\ ret.raised = ""
        /\ Len(ret.val) = Cardinality(Range(ret.val))
        /\ Range(ret.val) =
                {r \in store : /\ SatisfiesFilters(r, call.args)
                               /\ call.args.category # None => r.category = Get(call.args.category)}

(* the rows a query's filters select, text matched the way the engine matches it *)
Selected(a) ==
    {r \in store :
        /\ SatisfiesFilters(r, [a EXCEPT !.text = None])
        /\ ("category" \in DOMAIN a /\ a.category # None) => r.category = Get(a.category)
        /\ (a.text # None /\ Get(a.text) # <<>>) =>
                \/ r.note # None /\ Like(LikePattern(Get(a.text)), Get(r.note))
                \/ Like(LikePattern(Get(a.text)), r.category)}

(* r comes no later than t in the requested direction; text keys by byte order *)
NoLater(a, r, t) ==
    LET col == Get(a.order_by)
        lo == IF a.desc THEN t ELSE r
        hi == IF a.desc THEN r ELSE t
    IN  CASE col = "amount" -> lo.amount <= hi.amount
          [] col = "date" -> lo.date <= hi.date
          [] col = "category" -> lo.category = hi.category \/ TextLess(lo.category, hi.category)
          [] col = "id" -> lo.id <= hi.id

Sorted(a) == a.order_by # None /\ Get(a.order_by) \in VALID_ORDER_BY

(* C5: a list that succeeds returns selected records, each once; with orderBy one of
   the four keys they come sorted by it, ascending unless descending is set; with a
   limit L the result is the run of min(L, n - O) records that follows the first O
   of the n selected ones (O the offset, 0 when absent), so under a sort key the O
   skipped records come no later and the left-over ones no earlier than the
   returned ones; without a limit the offset is not applied and all n are returned. *)
ListSortedPaged ==
    (call.op = "list" /\ ret.raised = "") =>
        LET a == call.args
            res == ret.val
            n == Cardinality(Selected(a))
            O == IF a.offset = None THEN 0 ELSE Get(a.offset)
            rest == Selected(a) \ Range(res)
        IN  /\ Range(res) \subseteq Selected(a)
            /\ Len(res) = Cardinality(Range(res))
            /\ Sorted(a) => \A i \in 1..(Len(res) - 1) : NoLater(a, res[i], res[i + 1])
            /\ a.limit = None => Len(res) = n
            /\ a.limit # None =>
                /\ Len(res) = (IF n - O <= 0 THEN 0 ELSE IF Get(a.limit) < n - O THEN Get(a.limit) ELSE n - O)
                /\ Sorted(a) =>
                    \E skipped \in SUBSET rest :
                        /\ Cardinality(skipped) = (IF O < n THEN O ELSE n)
                        /\ \A r \in skipped, t \in Range(res) \cup (rest \ skipped) : NoLater(a, r, t)
                        /\ \A r \in Range(res), t \in rest \ skipped : NoLater(a, r, t)

ListSortedPagedWitness ==
    /\ call.op = "list" /\ ret.raised = ""
    /\ call.args.order_by = Some("amount") /\ call.args.desc
    /\ call.args.limit = Some(1) /\ call.args.offset = Some(1)
    /\ Cardinality(Selected(call.args)) = 3
    /\ Len(ret.val) = 1 /\ ret.val[1].amount = 1

(* C6: a list whose orderBy is given and is not one of amount, date, category, id
   fails with ValueError and runs no query, for every such value, the empty string
   included. *)
OrderByValidated ==
    (call.op = "list" /\ call.args.order_by # None /\ Get(call.args.order_by) \notin VALID_ORDER_BY) =>
        ret.raised = "ValueError" /\ ~queried

(* C7: a list given a negative offset fails with ValueError before any query,
   whether or not a limit is given. *)
OffsetValidated ==
    (call.op = "list" /\ call.args.offset # None /\ Get(call.args.offset) < 0) =>
        ret.raised = "ValueError" /\ ~queried

(* C8: a non-empty byCategory result has one aggregate per distinct category among
   the selected records, its total the sum of their amounts in that category and
   its count their number, ordered by non-increasing total. *)
CategoryAggregates ==
    (call.op = "by_category" /\ ret.val # <<>>) =>
        LET res == ret.val
            sel == Selected(call.args)
        IN  /\ {res[i].category : i \in 1..Len(res)} = {r.category : r \in sel}
            /\ Len(res) = Cardinality({r.category : r \in sel})
            /\ \A i \in 1..Len(res) :
                    /\ res[i].total = SumAmount({r \in sel : r.category = res[i].category})
                    /\ res[i].count = Cardinality({r \in sel : r.category = res[i].category})
            /\ \A i \in 1..(Len(res) - 1) : res[i].total >= res[i + 1].total

CategoryAggregatesWitness ==
    /\ call.op = "by_category" /\ call.args.min_amount # None
    /\ Len(ret.val) = 2
    /\ ret.val[1].count = 2 /\ ret.val[1].total > ret.val[2].total
    /\ Cardinality(Selected(call.args)) < Cardinality(store)

RECURSIVE SumPct(_)
SumPct(res) ==
    IF res = <<>> THEN [num |-> 0, den |-> 1]
    ELSE LET p == Head(res).pct_total
             q == SumPct(Tail(res))
         IN  [num |-> p.num * q.den + q.num * p.den, den |-> p.den * q.den]

(* C9: in a non-empty byCategory result every pct_total is 100 * total / grand total,
   the grand total of the selected records being the sum of the returned totals,
   and the pct_total values sum to 100. *)
PercentageNormalized ==
    (call.op = "by_category" /\ ret.val # <<>>) =>
        LET res == ret.val
            grand == SumAmount(Selected(call.args))
        IN  /\ grand = SumTotal(res)
            /\ \A i \in 1..Len(res) :
                    /\ res[i].pct_total.den # 0
                    /\ res[i].pct_total.num * grand = 100 * res[i].total * res[i].pct_total.den
            /\ SumPct(res).den # 0
            /\ SumPct(res).num = 100 * SumPct(res).den

PercentageNormalizedWitness ==
    /\ call.op = "by_category" /\ Len(ret.val) = 2
    /\ ret.val[1].total = 2 /\ ret.val[2].total = 1
    /\ ret.val[1].pct_total.num * 3 = 200 * ret.val[1].pct_total.den

(* C10: byCategory raises nothing and returns the empty sequence exactly when no
   stored record is selected or the selected amounts sum to zero. *)
CategoryEmptyExactly ==
    call.op = "by_category" =>
        /\ ret.raised = ""
        /\ ret.val = <<>> <=>
                (Selected(call.args) = {} \/ SumAmount(Selected(call.args)) = 0)

CategoryEmptyExactlyWitness ==
    /\ call.op = "by_category" /\ ret.val = <<>>
    /\ Selected(call.args) # {}
    /\ SumAmount(Selected(call.args)) = 0

(* C11: rangeSummary with both date bounds given returns absent exactly when no
   stored record lies within the bounds and passes the amount and text filters;
   otherwise count is the number of such records, at least 1, total the sum of
   their amounts and avg total / count. *)
RangeSummaryExact ==
    (call.op = "range_summary" /\ call.args.date_from # None /\ call.args.date_to # None) =>
        LET sel == Selected(call.args) IN
        /\ ret.raised = ""
        /\ ret.val = None <=> sel = {}
        /\ ret.val # None =>
            LET sum == Get(ret.val) IN
            /\ sum.count = Cardinality(sel) /\ sum.count >= 1
            /\ sum.total = SumAmount(sel)
            /\ sum.avg.den # 0
            /\ sum.avg.num * sum.count = sum.total * sum.avg.den

RangeSummaryExactWitness ==
    /\ call.op = "range_summary"
    /\ call.args.date_from = Some(1) /\ call.args.date_to = Some(1)
    /\ call.args.min_amount # None
    /\ ret.val # None
    /\ Get(ret.val).count = 2 /\ Get(ret.val).total = 3
    /\ Cardinality(store) = 4

(* C13: update called with date, category, amount and note all absent writes
   nothing, leaves the store unchanged and returns 0, for every id, the id of an
   existing record included. *)
UpdateNoFields ==
    [][(call'.op = "update" /\ ~SomeField(call')) =>
        /\ ret' = [raised |-> "", val |-> 0]
        /\ ~queried' /\ stmt' = NoStatement
        /\ store' = store /\ seq' = seq
      ]_vars

UpdateNoFieldsWitness ==
    /\ call.op = "update" /\ ~SomeField(call)
    /\ call.id \in Ids(store)
    /\ ret.val = 0 /\ ~queried

(* the five filters in the builder's fixed order *)
FilterFragment ==
    <<"date >= ?", "date <= ?", "amount >= ?", "amount <= ?", "(note LIKE ? OR category LIKE ?)">>

FilterPresent(a) ==
    <<a.date_from # None, a.date_to # None, a.min_amount # None, a.max_amount # None,
      a.text # None /\ Get(a.text) # <<>>>>

FragmentRank(frag) == CHOOSE k \in 1..5 : FilterFragment[k] = frag

(* C14: for every subset of date_from, date_to, min_amount, max_amount, text that is
   present the builder emits one fragment per present filter and none for an absent
   one, in the fixed order, with one bind value per fragment, the text fragment
   having two, both the same wildcard-wrapped text. *)
BuilderFragments ==
    call.op = "by_category" =>
        LET a == call.args
            w == stmt.where
            b == stmt.parameters
        IN  /\ \A k \in 1..5 :
                Cardinality({i \in 1..Len(w) : w[i] = FilterFragment[k]}) = (IF FilterPresent(a)[k] THEN 1 ELSE 0)
            /\ Len(w) = Cardinality({k \in 1..5 : FilterPresent(a)[k]})
            /\ \A i \in 1..(Len(w) - 1) : FragmentRank(w[i]) < FragmentRank(w[i + 1])
            /\ Len(b) = Len(w) + (IF FilterPresent(a)[5] THEN 1 ELSE 0)
            /\ \A i \in 1..Len(w) :
                CASE FragmentRank(w[i]) = 1 -> b[i] = Get(a.date_from)
                  [] FragmentRank(w[i]) = 2 -> b[i] = Get(a.date_to)
                  [] FragmentRank(w[i]) = 3 -> b[i] = Get(a.min_amount)
                  [] FragmentRank(w[i]) = 4 -> b[i] = Get(a.max_amount)
                  [] FragmentRank(w[i]) = 5 ->
                        /\ b[i] = b[i + 1]
                        /\ Len(b[i]) = Len(Get(a.text)) + 2
                        /\ b[i][1] = "%" /\ b[i][Len(b[i])] = "%"
                        /\ SubSeq(b[i], 2, Len(b[i]) - 1) = Get(a.text)

BuilderFragmentsWitness ==
    /\ call.op = "by_category"
    /\ Len(stmt.where) = 4 /\ Len(stmt.parameters) = 5
    /\ call.args.date_from = None /\ call.args.max_amount = Some(0)
    /\ call.args.text = Some(<<"f">>)

(* C15: the id an add returns differs from every id an earlier add returned, also
   from the ids of records deleted since, the largest included; no update changes
   a record's id. *)
IdsNeverReused ==
    [][/\ call'.op = "add" => ret'.val \notin issued /\ issued' = issued \cup {ret'.val}
       /\ call'.op = "update" => Ids(store') = Ids(store)
      ]_vars

IdsNeverReusedWitness ==
    /\ call.op = "add" /\ ret.val = 2
    /\ Ids(store) = {2} /\ issued = {1, 2}

(* C16: from the empty store, after any adds, updates and deletes whose amounts
   validate_amount accepted, every stored record has amount > 0 and carries a
   date, a category and an amount. *)
AmountsPositive ==
    \A r \in store :
        /\ r.amount > 0
        /\ r.date \in Dates /\ r.category \in Categories /\ r.amount \in Amounts

AmountsPositiveWitness ==
    /\ call.op = "update" /\ call.amount # None /\ ret.val = 1
    /\ Cardinality(store) = 2
    /\ \E r \in store : r.id # call.id /\ r.amount = 2

ReadOps == {"list", "by_category", "range_summary"}

(* C17: list, byCategory and rangeSummary leave the stored records as they were for
   every input, when they return a result and when they fail with ValueError. *)
ReadsReadOnly ==
    [][call'.op \in ReadOps => store' = store /\ seq' = seq]_vars

ReadsReadOnlyWitness ==
    /\ call.op = "list" /\ ret.raised = "ValueError" /\ ~queried
    /\ Cardinality(store) = 3

(* C12: a report range command in which date_from or date_to is absent is rejected
   as invalid input: it is not executed and not answered with exit code 0. *)
RangeBoundsMandatory ==
    (call.op = "cmd_report_range" /\ (call.args.date_from = None \/ call.args.date_to = None)) =>
        /\ ~queried
        /\ ret.val # Some(0)

(* C18: the update command given none of date, category, amount, note is rejected
   before the update service is called: no connection is opened, the store is
   unchanged and the handler returns 2. *)
CmdUpdateRejectsNoFields ==
    [][(call'.op = "cmd_update" /\ ~SomeField(call')) =>
        /\ ret'.val = Some(2)
        /\ conn' = conn /\ conn'.opened = 0
        /\ ~queried' /\ stmt' = NoStatement
        /\ store' = store /\ seq' = seq
      ]_vars

CmdUpdateRejectsNoFieldsWitness ==
    /\ call.op = "cmd_update" /\ ~SomeField(call)
    /\ call.id \in Ids(store)
    /\ ret.val = Some(2) /\ conn.opened = 0

(* C19: the update command given the id of an existing record and at least one of
   date, category, amount, note updates the record: afterwards the record carries
   the provided values, one updated row is reported and the handler returns 0. *)
CmdUpdateSucceeds ==
    [][(call'.op = "cmd_update" /\ SomeField(call') /\ call'.id \in Ids(store)) =>
        /\ ret'.val = Some(0)
        /\ ret'.printed /\ ret'.out = <<1>>
        /\ \E r \in store' :
            /\ r.id = call'.id
            /\ call'.date # None => r.date = Get(call'.date)
            /\ call'.category # None => r.category = Get(call'.category)
            /\ call'.amount # None => r.amount = Get(call'.amount)
            /\ call'.note # None => r.note = call'.note
      ]_vars

(* C20: report category with --top N, N positive, prints the first min(N, k) of the
   k aggregates by_category returned, in the same order, and returns 0; with N not
   positive it returns 2. *)
TopTruncation ==
    (call.op = "cmd_report_category" /\ call.top # None) =>
        LET n == Get(call.top)
            k == Len(ret.rows)
        IN  IF n > 0
            THEN /\ ret.val = Some(0)
                 /\ ret.printed
                 /\ ret.out = SubSeq(ret.rows, 1, IF n < k THEN n ELSE k)
            ELSE ret.val = Some(2)

CliOps ==
    {"cmd_init", "cmd_list", "cmd_add", "cmd_update", "cmd_delete",
     "cmd_report_category", "cmd_report_range", "cmd_export"}

(* C21: after every command (init, list, add, update, delete, report category,
   report range, export) every connection the command opened is closed, whether
   the service call succeeded or raised, and the command opened at most one. *)
ConnectionScoped ==
    /\ conn.open = 0
    /\ conn.opened <= 1
    /\ (call.op \in CliOps /\ (queried \/ ret.caught # "")) => conn.opened = 1

ConnectionScopedWitness ==
    /\ call.op = "cmd_add" /\ ret.caught = "sqlite3.Error" /\ ret.val = None
    /\ conn.opened = 1 /\ conn.open = 0
    /\ Cardinality(store) = 2

(* C22: whenever the service call inside a command handler raises, the handler
   returns a nonzero integer exit code, never 0 and never a value that is not an
   integer. *)
FailureExitCode ==
    (call.op \in CliOps /\ ret.caught # "") => ret.val \in {Some(1), Some(2)}

(* the list arguments that carry the report filters a and nothing else *)
SameFilters(a) ==
    [date_from |-> a.date_from, date_to |-> a.date_to, category |-> None,
     min_amount |-> a.min_amount, max_amount |-> a.max_amount, text |-> a.text,
     order_by |-> None, desc |-> FALSE, limit |-> None, offset |-> None]

RECURSIVE SumCounts(_)
SumCounts(res) == IF res = <<>> THEN 0 ELSE Head(res).count + SumCounts(Tail(res))

RECURSIVE SumAmounts(_)
SumAmounts(rows) == IF rows = <<>> THEN 0 ELSE Head(rows).amount + SumAmounts(Tail(rows))

(* C23: for every store and every combination of date_from, date_to, min_amount,
   max_amount and text, a non-empty byCategory result has counts summing to the
   number of records list returns for the same filters without a category filter
   and totals summing to those records' amounts; with both date bounds given, a
   rangeSummary that is not absent has that count and that total. *)
QueryPathsAgree ==
    /\ (call.op = "by_category" /\ ret.val # <<>>) =>
            \A rows \in ListResults(store, SameFilters(call.args)) :
                /\ SumCounts(ret.val) = Len(rows)
                /\ SumTotal(ret.val) = SumAmounts(rows)
    /\ (call.op = "range_summary" /\ call.args.date_from # None /\ call.args.date_to # None
            /\ ret.val # None) =>
            \A rows \in ListResults(store, SameFilters(call.args)) :
                /\ Get(ret.val).count = Len(rows)
                /\ Get(ret.val).total = SumAmounts(rows)

QueryPathsAgreeWitness ==
    /\ call.op = "range_summary"
    /\ call.args.date_from = Some(1) /\ call.args.date_to = Some(2)
    /\ call.args.min_amount = Some(2) /\ call.args.text = None
    /\ ret.val # None /\ Get(ret.val).count = 2
    /\ Cardinality(store) = 4
====
